---- MODULE Spec2Model ----
(***************************************************************************)
(* A model of src/ingestion/code_parser.py: CodeParser.parse_repository    *)
(* and everything it calls.  One run of parse_repository is a behaviour;   *)
(* the inputs of the run (the root path, the files rglob yields, each      *)
(* file's stat/read/parse outcome and its syntax tree) are fixed by Init.  *)
(*                                                                         *)
(* Strings are TLA+ strings (Len, SubSeq and \o act on them).  A syntax    *)
(* tree is a sequence of node records; node 0 is the ast.Module, node i    *)
(* (i >= 1) is the i-th node in breadth-first order, and a node's children *)
(* in body order are the nodes that name it as parent, by increasing       *)
(* index.  A CodeElement keeps the fields the properties below read: type, *)
(* name, filepath, start_line, end_line, complexity.                       *)
(***************************************************************************)
EXTENDS Integers, Sequences, FiniteSets, TLC

VARIABLES
    root,       \* the repo_path argument: [kind, files]
    pc,         \* position of the run
    idx,        \* index of the current py_file in the rglob sequence
    elements,   \* parse_repository's `elements` list
    local,      \* parse_file's `elements` list (file_elements once returned)
    todo,       \* the deque of ast.walk(tree) in parse_file
    skipped,    \* indices of the files _should_skip_file returned True for
    warnings    \* the logger.warning calls made so far: <<index, kind>>

vars == <<root, pc, idx, elements, local, todo, skipped, warnings>>

(***************************************************************************)
(* Bounds of the model.                                                    *)
(***************************************************************************)
MaxNodes == 3       \* nodes below the Module in a generated syntax tree
MaxFiles == 2       \* files in a multi-file traversal

(***************************************************************************)
(* Program constants.                                                      *)
(***************************************************************************)
max_file_size_kb == 500

SkipMarkers == <<"__pycache__", "venv", ".venv", "env">>

ComplexityKinds == {"If", "While", "For", "ExceptHandler"}

DefaultComplexity == 0

(***************************************************************************)
(* String helpers: `sub in s`, str.lower(), Path.name, str(Path).          *)
(***************************************************************************)
Contains(s, sub) ==
    \E i \in 1..(Len(s) - Len(sub) + 1) : SubSeq(s, i, i + Len(sub) - 1) = sub

LowerChar(c) ==
    CASE c = "A" -> "a" [] c = "B" -> "b" [] c = "C" -> "c" [] c = "D" -> "d"
      [] c = "E" -> "e" [] c = "F" -> "f" [] c = "G" -> "g" [] c = "H" -> "h"
      [] c = "I" -> "i" [] c = "J" -> "j" [] c = "K" -> "k" [] c = "L" -> "l"
      [] c = "M" -> "m" [] c = "N" -> "n" [] c = "O" -> "o" [] c = "P" -> "p"
      [] c = "Q" -> "q" [] c = "R" -> "r" [] c = "S" -> "s" [] c = "T" -> "t"
      [] c = "U" -> "u" [] c = "V" -> "v" [] c = "W" -> "w" [] c = "X" -> "x"
      [] c = "Y" -> "y" [] c = "Z" -> "z" [] OTHER -> c

RECURSIVE Lower(_)
Lower(s) ==
    IF Len(s) = 0 THEN ""
    ELSE LowerChar(SubSeq(s, 1, 1)) \o Lower(SubSeq(s, 2, Len(s)))

PathName(path) == path[Len(path)]

RECURSIVE PathStr(_)
PathStr(path) ==
    IF Len(path) = 1 THEN path[1]
    ELSE PathStr(SubSeq(path, 1, Len(path) - 1)) \o "/" \o path[Len(path)]

(***************************************************************************)
(* The syntax tree as ast.parse returns it.                                *)
(***************************************************************************)
ParentOf(t, n) == t[n].parent

\* iter_child_nodes restricted to the statements of a body, in body order
RECURSIVE ChildrenFrom(_, _, _)
ChildrenFrom(t, p, i) ==
    IF i > Len(t) THEN <<>>
    ELSE (IF t[i].parent = p THEN <<i>> ELSE <<>>) \o ChildrenFrom(t, p, i + 1)

Children(t, p) == ChildrenFrom(t, p, 1)

\* number of source lines a node spans: its header line and its body
RECURSIVE NodeSize(_, _)
RECURSIVE SizeSum(_, _)
SizeSum(t, ns) ==
    IF ns = <<>> THEN 0 ELSE NodeSize(t, Head(ns)) + SizeSum(t, Tail(ns))

NodeSize(t, n) ==
    IF t[n].kind = "BoolOp" THEN 1
    ELSE IF Children(t, n) = <<>> THEN 2
    ELSE 1 + SizeSum(t, Children(t, n))

EarlierSiblings(t, n) ==
    SelectSeq(Children(t, ParentOf(t, n)), LAMBDA m : m < n)

RECURSIVE Lineno(_, _)
Lineno(t, n) ==
    (IF ParentOf(t, n) = 0 THEN 1 ELSE Lineno(t, ParentOf(t, n)) + 1)
        + SizeSum(t, EarlierSiblings(t, n))

EndLineno(t, n) == Lineno(t, n) + NodeSize(t, n) - 1

\* len(source.splitlines()): the statements' lines and the trailing blank ones
SourceLines(f) == SizeSum(f.tree, Children(f.tree, 0)) + f.blank

\* ast.walk(node): node and all its descendants
RECURSIVE Subtree(_, _)
RECURSIVE SubtreeAll(_, _)
SubtreeAll(t, ns) ==
    IF ns = <<>> THEN {} ELSE Subtree(t, Head(ns)) \cup SubtreeAll(t, Tail(ns))

Subtree(t, n) == {n} \cup SubtreeAll(t, Children(t, n))

(***************************************************************************)
(* CodeElement construction (the _create_*_element methods).               *)
(***************************************************************************)
\* Optional[str] None; `if parent_class` is false for None and for ""
None == ""

Range(seq) == {seq[i] : i \in DOMAIN seq}

ComplexityOf(t, c) ==
    IF t[c].kind \in ComplexityKinds THEN 1
    ELSE IF t[c].kind = "BoolOp" THEN t[c].nvalues - 1
    ELSE 0

RECURSIVE ComplexitySum(_, _)
ComplexitySum(t, S) ==
    IF S = {} THEN 0
    ELSE LET c == CHOOSE x \in S : TRUE
         IN  ComplexityOf(t, c) + ComplexitySum(t, S \ {c})

BaseComplexity == 1

\* mutant: the base path is not counted
CalculateComplexityNoBase(t, node) == ComplexitySum(t, Subtree(t, node))

CalculateComplexity(t, node) == BaseComplexity + ComplexitySum(t, Subtree(t, node))

CreateFileElement(f) ==
    [type |-> "file", name |-> PathName(f.path), filepath |-> PathStr(f.path),
     start_line |-> 1, end_line |-> SourceLines(f),
     complexity |-> DefaultComplexity]

CreateClassElement(f, node) ==
    [type |-> "class", name |-> f.tree[node].name, filepath |-> PathStr(f.path),
     start_line |-> Lineno(f.tree, node), end_line |-> EndLineno(f.tree, node),
     complexity |-> DefaultComplexity]

\* mutant: the owning class is dropped from the name
FunctionNameBare(parent_class, name) == name

FunctionName(parent_class, name) ==
    IF parent_class # None THEN parent_class \o "." \o name ELSE name

CreateFunctionElement(f, node, parent_class) ==
    [type |-> "function", name |-> FunctionName(parent_class, f.tree[node].name),
     filepath |-> PathStr(f.path),
     start_line |-> Lineno(f.tree, node), end_line |-> EndLineno(f.tree, node),
     complexity |-> CalculateComplexity(f.tree, node)]

(***************************************************************************)
(* parse_file: the walk over the tree.                                     *)
(***************************************************************************)
\* for item in tree.body: ... (the loop of _is_top_level)
RECURSIVE IsTopLevelFrom(_, _, _)
IsTopLevelFrom(t, node, body) ==
    IF body = <<>> THEN FALSE
    ELSE IF Head(body) = node THEN TRUE
    ELSE IF t[Head(body)].kind = "ClassDef" /\ node \in Range(Children(t, Head(body)))
         THEN FALSE
    ELSE IsTopLevelFrom(t, node, Tail(body))

\* mutant: every function the walk reaches counts as top-level
IsTopLevelAlways(t, node) == TRUE

\* mutant: "not nested in a class" taken literally, at any depth
IsTopLevelNotInClass(t, node) ==
    t[node].parent = 0 \/ t[t[node].parent].kind # "ClassDef"

IsTopLevel(t, node) == IsTopLevelFrom(t, node, Children(t, 0))

\* for item in node.body: if isinstance(item, ast.FunctionDef): ...
RECURSIVE MethodElements(_, _, _)
MethodElements(f, cls, body) ==
    IF body = <<>> THEN <<>>
    ELSE (IF f.tree[Head(body)].kind = "FunctionDef"
          THEN <<CreateFunctionElement(f, Head(body), f.tree[cls].name)>>
          ELSE <<>>) \o MethodElements(f, cls, Tail(body))

\* mutant: the class element is appended after its methods
ClassBranchMethodsLast(f, node) ==
    MethodElements(f, node, Children(f.tree, node)) \o <<CreateClassElement(f, node)>>

ClassBranch(f, node) ==
    <<CreateClassElement(f, node)>> \o MethodElements(f, node, Children(f.tree, node))

FunctionBranch(f, node) ==
    IF IsTopLevel(f.tree, node) THEN <<CreateFunctionElement(f, node, None)>> ELSE <<>>

\* the elements one iteration of `for node in ast.walk(tree)` appends
Visit(f, node) ==
    IF node = 0 THEN <<>>
    ELSE IF f.tree[node].kind = "ClassDef" THEN ClassBranch(f, node)
    ELSE IF f.tree[node].kind = "FunctionDef" THEN FunctionBranch(f, node)
    ELSE <<>>

\* ast.walk: todo.popleft(), then todo.extend(iter_child_nodes(node))
WalkNext(t, queue) == Tail(queue) \o Children(t, Head(queue))

RECURSIVE Walk(_, _, _)
Walk(f, queue, acc) ==
    IF queue = <<>> THEN acc
    ELSE Walk(f, WalkNext(f.tree, queue), acc \o Visit(f, Head(queue)))

\* what parse_file returns for a file it can read and that raises nowhere
ParseFile(f) ==
    IF ~f.syntax_ok THEN <<>> ELSE Walk(f, <<0>>, <<CreateFileElement(f)>>)

(***************************************************************************)
(* _should_skip_file: "skip" (True), "keep" (False) or "raise" (stat()     *)
(* raised OSError).                                                        *)
(***************************************************************************)
NameHasTest(path) == Contains(Lower(PathName(path)), "test")

InSkippedDirectory(path) ==
    \E k \in DOMAIN SkipMarkers : Contains(PathStr(path), SkipMarkers[k])

TooLarge(size) == size > max_file_size_kb * 1024

ShouldSkipFile(f) ==
    IF NameHasTest(f.path) THEN "skip"
    ELSE IF InSkippedDirectory(f.path) THEN "skip"
    ELSE IF ~f.stat_ok THEN "raise"
    ELSE IF TooLarge(f.size) THEN "skip"
    ELSE "keep"

(***************************************************************************)
(* parse_repository.                                                       *)
(***************************************************************************)
\* repo_path.rglob("*.py"): nothing for a path that is no directory
Rglob(r) == IF r.kind = "dir" THEN r.files ELSE <<>>

ExtendElements(els, file_elements) == els \o file_elements

\* mutant: what the failed file had built so far is kept
ExceptKeepsPartial(els, file_elements) == els \o file_elements

\* the except clause logs and leaves `elements` as it was
ExceptElements(els, file_elements) == els

(***************************************************************************)
(* Inputs: syntax trees, files, traversals.                                *)
(***************************************************************************)
Identifiers == {"a", "B"}

\* declarations and a plain compound statement: the shape of a module
StructureShapes ==
    [kind : {"ClassDef", "FunctionDef"}, name : Identifiers, nvalues : {0}]
        \cup [kind : {"AsyncFunctionDef"}, name : {"a"}, nvalues : {0}]
        \cup [kind : {"If"}, name : {""}, nvalues : {0}]

FunctionShape == [kind |-> "FunctionDef", name |-> "a", nvalues |-> 0]

\* what a function's body is scored on, and a class
BodyShapes ==
    [kind : {"If", "While", "For", "ExceptHandler"}, name : {""}, nvalues : {0}]
        \cup [kind : {"BoolOp"}, name : {""}, nvalues : {2, 3}]
        \cup [kind : {"ClassDef"}, name : {"B"}, nvalues : {0}]

\* parent[i] < i and parents non-decreasing: the breadth-first numbering
ParentSeqs(n) ==
    {p \in [1..n -> 0..(n - 1)] :
        /\ \A i \in 1..n : p[i] < i
        /\ \A i \in 1..(n - 1) : p[i] <= p[i + 1]}

MakeTree(p, sh) == [i \in DOMAIN p |->
    [parent |-> p[i], kind |-> sh[i].kind, name |-> sh[i].name,
     nvalues |-> sh[i].nvalues]]

\* an expression (BoolOp) holds no statement
WellFormed(t) ==
    \A i \in DOMAIN t :
        IF t[i].parent = 0 THEN TRUE ELSE t[t[i].parent].kind # "BoolOp"

Ceiling == max_file_size_kb * 1024

HealthyFile(path, tree, blank) ==
    [path |-> path, size |-> IF tree = <<>> /\ blank = 0 THEN 0 ELSE Ceiling - 1,
     stat_ok |-> TRUE, read_ok |-> TRUE, syntax_ok |-> TRUE,
     tree |-> tree, blank |-> blank, raise_at |-> 0]

Directory(files) == [kind |-> "dir", files |-> files]

\* one readable, valid file: any tree of declarations, with or without a
\* trailing blank line (the empty tree without one is the empty file)
ExtractionInit ==
    \E n \in 0..MaxNodes, b \in {0, 1} :
        \E p \in ParentSeqs(n) :
            \E sh \in [1..n -> StructureShapes] :
                /\ b = 1 => n = 0
                /\ root = Directory(<<HealthyFile(<<"repo", "a.py">>, MakeTree(p, sh), b)>>)

\* one readable, valid file that starts with a function, followed or filled
\* by control flow, boolean operations and classes
ComplexityInit ==
    \E n \in 1..MaxNodes :
        \E p \in ParentSeqs(n) :
            \E sh \in [2..n -> BodyShapes] :
                LET t == MakeTree(p, [i \in 1..n |-> IF i = 1 THEN FunctionShape ELSE sh[i]])
                IN  /\ WellFormed(t)
                    /\ root = Directory(<<HealthyFile(<<"repo", "a.py">>, t, 0)>>)

Directories == {"src", "venv", ".venv", "__pycache__", "env", "environment", "Contest"}

BaseNames == {"a.py", "test_a.py", "MyTest.py", "envoy.py"}

\* one file of any path and size, whose stat() may fail
SelectionInputs ==
    {<<[HealthyFile(<<"repo", d, b>>, <<>>, IF sz = 0 THEN 0 ELSE 1)
            EXCEPT !.size = sz, !.stat_ok = ok]>> :
        d \in Directories, b \in BaseNames,
        sz \in {0, Ceiling - 1, Ceiling, Ceiling + 1}, ok \in BOOLEAN}

ModuleNames == <<"a.py", "b.py", "c.py", "d.py">>

SmallTrees ==
    {<<>>,
     MakeTree(<<0>>, <<FunctionShape>>),
     MakeTree(<<0, 1>>, <<[kind |-> "ClassDef", name |-> "B", nvalues |-> 0],
                          FunctionShape>>)}

\* the i-th file of a traversal: healthy, skipped, or failing at one step
FilesAt(i) ==
    LET path == <<"repo", ModuleNames[i]>>
        ok   == HealthyFile(path, <<>>, 1)
    IN  {[ok EXCEPT !.stat_ok = FALSE, !.read_ok = FALSE],
         [ok EXCEPT !.read_ok = FALSE],
         [ok EXCEPT !.syntax_ok = FALSE],
         [ok EXCEPT !.path = <<"repo", "test_" \o ModuleNames[i]>>]}
        \cup UNION {{[HealthyFile(path, t, 1) EXCEPT !.raise_at = r] :
                        r \in 0..Len(t)} : t \in SmallTrees}

RECURSIVE Traversals(_)
Traversals(k) ==
    IF k = 0 THEN {<<>>}
    ELSE {Append(s, f) : s \in Traversals(k - 1), f \in FilesAt(k)}

\* several files, each of which may fail
IsolationInputs == UNION {Traversals(k) : k \in 0..MaxFiles}

(***************************************************************************)
(* The run.                                                                *)
(***************************************************************************)
Init ==
    /\ \/ ExtractionInit
       \/ ComplexityInit
       \/ \E fs \in SelectionInputs \cup IsolationInputs : root = Directory(fs)
       \/ \E k \in {"missing", "file"} : root = [kind |-> k, files |-> <<>>]
    /\ pc = "start"
    /\ idx = 0
    /\ elements = <<>>
    /\ local = <<>>
    /\ todo = <<>>
    /\ skipped = {}
    /\ warnings = <<>>

Files == Rglob(root)

CurrentFile == Files[idx]

\* elements = []; repo_path = Path(repo_path); the rglob iterator is made
Start ==
    /\ pc = "start"
    /\ pc' = "loop"
    /\ idx' = 1
    /\ elements' = <<>>
    /\ UNCHANGED <<root, local, todo, skipped, warnings>>

\* _should_skip_file returns True: continue
SkipFile ==
    /\ pc = "loop"
    /\ idx <= Len(Files)
    /\ ShouldSkipFile(CurrentFile) = "skip"
    /\ skipped' = skipped \cup {idx}
    /\ idx' = idx + 1
    /\ UNCHANGED <<root, pc, elements, local, todo, warnings>>

\* _should_skip_file returns False: the try block is entered
SelectFile ==
    /\ pc = "loop"
    /\ idx <= Len(Files)
    /\ ShouldSkipFile(CurrentFile) = "keep"
    /\ pc' = "open"
    /\ UNCHANGED <<root, idx, elements, local, todo, skipped, warnings>>

\* filepath.stat() raises outside the try block: parse_repository raises
StatRaises ==
    /\ pc = "loop"
    /\ idx <= Len(Files)
    /\ ShouldSkipFile(CurrentFile) = "raise"
    /\ pc' = "raised"
    /\ UNCHANGED <<root, idx, elements, local, todo, skipped, warnings>>

\* parse_file: open(filepath) and f.read()
OpenRead ==
    /\ pc = "open"
    /\ pc' = IF CurrentFile.read_ok THEN "parse" ELSE "except"
    /\ UNCHANGED <<root, idx, elements, local, todo, skipped, warnings>>

\* parse_file: ast.parse, then the file element, or the SyntaxError handler
AstParse ==
    /\ pc = "parse"
    /\ IF CurrentFile.syntax_ok
       THEN /\ local' = <<CreateFileElement(CurrentFile)>>
            /\ todo' = <<0>>
            /\ pc' = "walk"
            /\ UNCHANGED warnings
       ELSE /\ local' = <<>>
            /\ todo' = <<>>
            /\ pc' = "return"
            /\ warnings' = Append(warnings, <<idx, "syntax">>)
    /\ UNCHANGED <<root, idx, elements, skipped>>

\* parse_file: one iteration of `for node in ast.walk(tree)`
WalkStep ==
    /\ pc = "walk"
    /\ todo # <<>>
    /\ IF Head(todo) # 0 /\ Head(todo) = CurrentFile.raise_at
       THEN /\ pc' = "except"
            /\ UNCHANGED <<local, todo>>
       ELSE /\ local' = local \o Visit(CurrentFile, Head(todo))
            /\ todo' = WalkNext(CurrentFile.tree, todo)
            /\ pc' = pc
    /\ UNCHANGED <<root, idx, elements, skipped, warnings>>

\* parse_file: the walk is exhausted, return elements
WalkDone ==
    /\ pc = "walk"
    /\ todo = <<>>
    /\ pc' = "return"
    /\ UNCHANGED <<root, idx, elements, local, todo, skipped, warnings>>

\* parse_repository: elements.extend(file_elements), next file
Return ==
    /\ pc = "return"
    /\ elements' = ExtendElements(elements, local)
    /\ local' = <<>>
    /\ idx' = idx + 1
    /\ pc' = "loop"
    /\ UNCHANGED <<root, todo, skipped, warnings>>

\* parse_repository: except Exception: logger.warning, next file
Except ==
    /\ pc = "except"
    /\ elements' = ExceptElements(elements, local)
    /\ warnings' = Append(warnings, <<idx, "failed">>)
    /\ local' = <<>>
    /\ todo' = <<>>
    /\ idx' = idx + 1
    /\ pc' = "loop"
    /\ UNCHANGED <<root, skipped>>

\* parse_repository: the iterator is exhausted, return elements
Finish ==
    /\ pc = "loop"
    /\ idx > Len(Files)
    /\ pc' = "done"
    /\ UNCHANGED <<root, idx, elements, local, todo, skipped, warnings>>

Next ==
    \/ Start
    \/ SkipFile
    \/ SelectFile
    \/ StatRaises
    \/ OpenRead
    \/ AstParse
    \/ WalkStep
    \/ WalkDone
    \/ Return
    \/ Except
    \/ Finish

Spec == Init /\ [][Next]_vars

(***************************************************************************)
(* Vocabulary of the properties.                                           *)
(***************************************************************************)
\* the elements of the aggregated list that carry file i's path
ElementsOfFile(i) ==
    SelectSeq(elements, LAMBDA e : e.filepath = PathStr(Files[i].path))

\* file i's handling fails at some step: stat, read, parse or extraction
FailedFile(i) ==
    \/ ~Files[i].stat_ok
    \/ ~Files[i].read_ok
    \/ ~Files[i].syntax_ok
    \/ Files[i].raise_at # 0

\* parse_file has walked the whole tree of a valid file and is returning
Returning == pc = "return" /\ CurrentFile.syntax_ok

FunctionDefs(t) == {n \in DOMAIN t : t[n].kind = "FunctionDef"}

\* the Function elements of `local` made from the declaration at node n
EmittedAt(t, n) ==
    {k \in DOMAIN local : local[k].type = "function"
                          /\ local[k].start_line = Lineno(t, n)}

InClassBody(t, n) == t[n].parent # 0 /\ t[t[n].parent].kind = "ClassDef"

InModuleBody(t, n) == t[n].parent = 0

\* the files _should_skip_file has given an answer for
Decided == {i \in DOMAIN Files : i < idx \/ (i = idx /\ pc \notin {"loop", "raised"})}

ComponentIsMarker(path) ==
    \E c \in DOMAIN path, k \in DOMAIN SkipMarkers : path[c] = SkipMarkers[k]

(***************************************************************************)
(* C1: a per-file failure (syntax error, read or other I/O failure on the  *)
(* file, any unexpected failure while handling it) never aborts the run:   *)
(* parse_repository does not raise, and its result holds the elements of   *)
(* every eligible, valid file of the traversal.                            *)
(***************************************************************************)
C1_PerFileFailureNeverAborts ==
    /\ pc # "raised"
    /\ pc = "done" =>
          \A i \in DOMAIN Files :
              (~FailedFile(i) /\ i \notin skipped)
                  => ElementsOfFile(i) = ParseFile(Files[i])

(***************************************************************************)
(* C2: extraction is all-or-nothing per file.  In every state of the run   *)
(* the elements of the aggregated list that carry a file's path are the    *)
(* whole list parse_file produces for the file or none, and a file whose   *)
(* handling failed at any step contributes none.                           *)
(***************************************************************************)
C2_AllOrNothingPerFile ==
    \A i \in DOMAIN Files :
        /\ \/ ElementsOfFile(i) = <<>>
           \/ ElementsOfFile(i) = ParseFile(Files[i])
        /\ FailedFile(i) => ElementsOfFile(i) = <<>>

\* a file failed after parse_file had built elements for it, it was logged,
\* and the finished run holds the elements of another file
C2_Witness ==
    /\ pc = "done"
    /\ elements # <<>>
    /\ \E i \in DOMAIN Files :
          /\ Files[i].raise_at > 1
          /\ \E w \in DOMAIN warnings : warnings[w] = <<i, "failed">>

(***************************************************************************)
(* C3: an invalid root path (missing, or not a directory) is fatal: the    *)
(* call does not return normally with an element list.                     *)
(***************************************************************************)
C3_InvalidRootIsFatal == root.kind # "dir" => pc # "done"

(***************************************************************************)
(* C4: every element parse_file returns for a valid source text, the empty *)
(* one included, has 1 <= start_line <= end_line <= the number of lines of *)
(* the source.                                                             *)
(***************************************************************************)
C4_LineSpansWithinFile ==
    Returning =>
        \A k \in DOMAIN local :
            /\ 1 <= local[k].start_line
            /\ local[k].start_line <= local[k].end_line
            /\ local[k].end_line <= SourceLines(CurrentFile)

(***************************************************************************)
(* C5: _should_skip_file excludes a path exactly when its base name        *)
(* contains "test" (any case), or one of its components equals a marker,   *)
(* or its size is strictly above max_file_size_kb * 1024.                  *)
(***************************************************************************)
C5_SkippedExactlyWhenListed ==
    \A i \in Decided :
        i \in skipped <=> \/ NameHasTest(Files[i].path)
                          \/ ComponentIsMarker(Files[i].path)
                          \/ Files[i].size > max_file_size_kb * 1024

(***************************************************************************)
(* C6: every function declaration of a parsed file, wherever it sits, has  *)
(* a Function element in parse_file's result.                              *)
(***************************************************************************)
C6_EveryFunctionDeclarationEmitted ==
    Returning =>
        \A n \in FunctionDefs(CurrentFile.tree) : EmittedAt(CurrentFile.tree, n) # {}

(***************************************************************************)
(* C6 as amended: a function declaration has a Function element exactly    *)
(* when it is a direct statement of the module body or of a class body (a  *)
(* class at any depth); a function declared in another function's body or  *)
(* under another compound statement has none, and neither has an async     *)
(* function declaration.                                                   *)
(***************************************************************************)
C6_EmittedIffInModuleOrClassBody ==
    Returning =>
        LET t == CurrentFile.tree
        IN  /\ \A n \in FunctionDefs(t) :
                   EmittedAt(t, n) # {} <=> (InModuleBody(t, n) \/ InClassBody(t, n))
            /\ \A n \in DOMAIN t :
                   t[n].kind = "AsyncFunctionDef" => EmittedAt(t, n) = {}

\* a result with a Function element, of a tree that also declares a function
\* inside a function
C6_Witness ==
    /\ Returning
    /\ \E n, m \in FunctionDefs(CurrentFile.tree) :
          /\ CurrentFile.tree[m].parent = n
          /\ EmittedAt(CurrentFile.tree, n) # {}
          /\ EmittedAt(CurrentFile.tree, m) = {}

\* the node a Class element was made from
ClassNodeAt(t, line) ==
    CHOOSE n \in DOMAIN t : t[n].kind = "ClassDef" /\ Lineno(t, n) = line

\* the function declarations of a class's direct body, in declaration order
DirectMethods(t, c) ==
    SelectSeq(Children(t, c), LAMBDA m : t[m].kind = "FunctionDef")

(***************************************************************************)
(* C7: parse_file's list is ordered.  The single File element is first;    *)
(* each Class element is immediately followed by the Function elements of  *)
(* the function declarations of the class's direct body, in declaration    *)
(* order, whatever the line numbers of the elements around them.           *)
(***************************************************************************)
C7_FileFirstThenClassWithItsMethods ==
    Returning =>
        LET t == CurrentFile.tree
        IN  /\ local[1].type = "file"
            /\ \A k \in 2..Len(local) : local[k].type # "file"
            /\ \A k \in DOMAIN local :
                   local[k].type = "class" =>
                       LET c  == ClassNodeAt(t, local[k].start_line)
                           ms == DirectMethods(t, c)
                       IN  /\ k + Len(ms) <= Len(local)
                           /\ \A j \in DOMAIN ms :
                                  /\ local[k + j].type = "function"
                                  /\ local[k + j].start_line = Lineno(t, ms[j])

\* a class followed by its method, in a list that is not in line order
C7_Witness ==
    /\ Returning
    /\ \E k \in DOMAIN local :
          /\ local[k].type = "class"
          /\ DirectMethods(CurrentFile.tree,
                           ClassNodeAt(CurrentFile.tree, local[k].start_line)) # <<>>
    /\ \E k \in 1..(Len(local) - 1) : local[k].start_line > local[k + 1].start_line

(***************************************************************************)
(* C8: every CodeElement has complexity >= 1, File and Class elements      *)
(* included.                                                               *)
(***************************************************************************)
C8_EveryComplexityAtLeastOne ==
    \A k \in DOMAIN elements : elements[k].complexity >= 1

\* 1, plus one per if/while/for/except-handler node, plus N-1 per boolean
\* operation of N operands, in the subtree of node n
Score(t, n) ==
    LET sub == Subtree(t, n)
        RECURSIVE Operands(_)
        Operands(S) == IF S = {} THEN 0
                       ELSE LET b == CHOOSE x \in S : TRUE
                            IN  (t[b].nvalues - 1) + Operands(S \ {b})
    IN  1 + Cardinality({d \in sub : t[d].kind \in {"If", "While", "For", "ExceptHandler"}})
          + Operands({d \in sub : t[d].kind = "BoolOp"})

(***************************************************************************)
(* C8 as amended: every Function element has complexity >= 1, namely its   *)
(* score; File and Class elements carry the dataclass default, which is 0. *)
(***************************************************************************)
C8_FunctionComplexityIsScoreOthersZero ==
    Returning =>
        \A k \in DOMAIN local :
            IF local[k].type = "function"
            THEN /\ local[k].complexity >= 1
                 /\ \E n \in FunctionDefs(CurrentFile.tree) :
                        /\ Lineno(CurrentFile.tree, n) = local[k].start_line
                        /\ local[k].complexity = Score(CurrentFile.tree, n)
            ELSE local[k].complexity = 0

\* a result with a Class element and a Function element that scores >= 3
C8_Witness ==
    /\ Returning
    /\ \E j, k \in DOMAIN local :
          /\ local[j].type = "class"
          /\ local[k].type = "function"
          /\ local[k].complexity >= 3

(***************************************************************************)
(* C9: a Function element made from a declaration in a class's direct body *)
(* is named "<ClassName>.<methodName>" after the immediately enclosing     *)
(* class; one made from a top-level function carries the bare name, which  *)
(* holds no ".".                                                           *)
(***************************************************************************)
C9_MethodNamesQualified ==
    Returning =>
        LET t == CurrentFile.tree
        IN  \A n \in FunctionDefs(t) :
                \A k \in EmittedAt(t, n) :
                    IF InClassBody(t, n)
                    THEN local[k].name = t[t[n].parent].name \o "." \o t[n].name
                    ELSE /\ local[k].name = t[n].name
                         /\ ~Contains(local[k].name, ".")

\* a result with a top-level function and a method
C9_Witness ==
    /\ Returning
    /\ \E n, m \in FunctionDefs(CurrentFile.tree) :
          /\ InModuleBody(CurrentFile.tree, n)
          /\ EmittedAt(CurrentFile.tree, n) # {}
          /\ InClassBody(CurrentFile.tree, m)
          /\ EmittedAt(CurrentFile.tree, m) # {}

(***************************************************************************)
(* C10: no function declaration gives rise to more than one Function       *)
(* element of parse_file's result, be it a method of a module-level class, *)
(* a method of a nested class or a module-level function.                  *)
(***************************************************************************)
C10_NoDeclarationEmittedTwice ==
    Returning =>
        \A n \in FunctionDefs(CurrentFile.tree) :
            Cardinality(EmittedAt(CurrentFile.tree, n)) <= 1

\* the walk has passed a method of a class that is itself nested
C10_Witness ==
    /\ Returning
    /\ \E n \in FunctionDefs(CurrentFile.tree) :
          /\ InClassBody(CurrentFile.tree, n)
          /\ CurrentFile.tree[CurrentFile.tree[n].parent].parent # 0
          /\ Cardinality(EmittedAt(CurrentFile.tree, n)) = 1

====
